---------------------------- MODULE Spec2Model ----------------------------
(***************************************************************************)
(* A model of multicam.c: the Camera descriptor (Camera_init), the         *)
(* per-device capture worker (cam_read_worker), the single-device read     *)
(* (camera_read) and the batch read (camsys_read).                         *)
(*                                                                         *)
(* Calls into the extension run under the interpreter lock, which neither  *)
(* camera_read nor camsys_read releases: one call is in progress at a      *)
(* time, and the only concurrency is between the worker threads of one     *)
(* call and the thread that created them.                                  *)
(*                                                                         *)
(* Environment assumptions: malloc, PyDataMem_NEW and pthread_create       *)
(* succeed (the code does not test their results).  Every Python C-API     *)
(* call whose result the code does test may fail.                          *)
(***************************************************************************)
EXTENDS Integers, Sequences, FiniteSets, TLC

\* Longest device sequence of a batch call.
MaxN == 2

\* Buffers in a started device's pool (requested by v4l2_init_device).
NumBuf == 2

\* The device descriptors that exist.
Dev == {"video0", "video1"}

\* (width, height) pairs a descriptor or a capture system may carry.
Sizes == {<<1, 1>>, <<2, 1>>}

\* Worker indices of one call: cam_args[0 .. N-1].
Idx == 0 .. (MaxN - 1)

\* self->format == NULL (a C string never holds the byte 0).
NULL == <<0>>

\* Characters of the format codes tried: '2', 'Y', 'y'.
FmtChars == {50, 89, 121}

\* Format codes of 3, 4 and 5 characters; the first two characters vary.
Formats ==
    {f \in UNION {[1 .. n -> FmtChars] : n \in 3 .. 5} :
        \A j \in 3 .. Len(f) : f[j] = 121}

VARIABLES
    cam_width,   \* cam->width of each descriptor
    cam_height,  \* cam->height of each descriptor
    format,      \* self->format
    fourcc,      \* self->fourcc
    initres,     \* what the last Camera_init on the descriptor returned
    phase,       \* where the device of the descriptor is in its lifecycle:
                 \* "Closed", "Opened", "Negotiated", "Capturing"
    lifecall,    \* the last camera_start or camera_stop: the descriptor, the
                 \* driver calls it made with their results, what it returned
    out,         \* raw buffers of the device's pool dequeued and not requeued
    kind,        \* the call in progress: "none", "camera_read", "camsys_read"
    pc,          \* position of the calling thread in that call
    cams,        \* the device sequence of the call (camera_read: <<self>>)
    N,           \* camsys_read: N
    width,       \* camsys_read: width
    height,      \* camsys_read: height
    cam_dst_sz,  \* camsys_read: cam_dst_sz
    i,           \* the calling thread's loop index
    arr,         \* the destination: "none", "allocated" (held by the call,
                 \* or by nobody once it has returned), "caller"
    arr_size,    \* its size in bytes
    cam_args,    \* cam_args[k] = [cam, dst, res]
    wpc,         \* position of worker thread k
    written,     \* byte offsets (from dst[0]) worker k has written
    nthreads,    \* threads created by the call
    stages,      \* the collaborator calls worker k has made, with their results
    res,         \* what the call returned: "none", "NULL", "array"
    err,         \* the Python error set when it returned
    out0,        \* history: out as it was when the call in progress started
    streak       \* history: streak[d] = k when k worker cycles have ended on
                 \* device d since it was started and each failed at the
                 \* first conversion; -1 when some cycle ended otherwise,
                 \* or when the cycles of d are not being counted

desc == <<cam_width, cam_height, format, fourcc, initres, phase>>

\* Whether the driver handle of descriptor d is open.
opened == [d \in Dev |-> phase[d] # "Closed"]
callv == <<kind, pc, cams, N, width, height, cam_dst_sz, i, arr, arr_size,
           cam_args, wpc, written, nthreads, stages, res, err>>
acct == <<out0, streak>>
vars == <<desc, lifecall, out, acct, callv>>

\* A Python error: its type, and for the read errors the device index and
\* the outcome code the message carries (-1: the message carries none).
Error(type, index, code) == [type |-> type, index |-> index, code |-> code]
NoErr == Error("none", -1, -1)
\* cams before PyObject_GetAttrString(camsys, "cameras") has given it.
NoCams == <<"NULL">>
NoArgs == [k \in Idx |-> [cam |-> "none", dst |-> 0, res |-> 0]]

(***************************************************************************)
(* Camera_init                                                             *)
(***************************************************************************)

\* toupper without the case mapping.
ToUpperIdentity(c) == c

\* toupper of the C locale.
ToUpper(c) == IF c >= 97 /\ c <= 122 THEN c - 32 ELSE c

\* FOURCC(a, b, c, d): a in the low byte.
FOURCC(a, b, c, d) == a + b * 256 + c * 65536 + d * 16777216

STR2FOURCC(s) == FOURCC(ToUpper(s[1]), ToUpper(s[2]), ToUpper(s[3]), ToUpper(s[4]))

\* An omitted size argument.
NoSize == <<0, 0>>

\* Camera_init(self, device, size, fps, format): size and format are
\* optional; an omitted one leaves the field as it was.
Camera_init(d, size, fmt) ==
    /\ kind = "none"
    /\ cam_width' = IF size = NoSize THEN cam_width
                    ELSE [cam_width EXCEPT ![d] = size[1]]
    /\ cam_height' = IF size = NoSize THEN cam_height
                     ELSE [cam_height EXCEPT ![d] = size[2]]
    /\ format' = IF fmt = NULL THEN format ELSE [format EXCEPT ![d] = fmt]
    /\ IF format'[d] # NULL
       THEN IF Len(format'[d]) # 4
            THEN /\ initres' = [initres EXCEPT ![d] = "ValueError"]
                 /\ fourcc' = fourcc
            ELSE /\ initres' = [initres EXCEPT ![d] = "ok"]
                 /\ fourcc' = [fourcc EXCEPT ![d] = STR2FOURCC(format'[d])]
       ELSE /\ initres' = [initres EXCEPT ![d] = "ok"]
            /\ fourcc' = [fourcc EXCEPT ![d] = 0]
    /\ UNCHANGED <<phase, lifecall, out, acct, callv>>

(***************************************************************************)
(* cam_read_worker                                                         *)
(***************************************************************************)

Running(k) == wpc[k] \notin {"idle", "ret"}

\* A worker that reports a failed requeue with the code of the first
\* conversion.
ReturnCollapsed(k, code) ==
    /\ cam_args' = [cam_args EXCEPT ![k].res = IF code = 3 THEN 2 ELSE code]
    /\ wpc' = [wpc EXCEPT ![k] = "ret"]

\* args->res = code; return NULL;
Return(k, code) ==
    /\ cam_args' = [cam_args EXCEPT ![k].res = code]
    /\ wpc' = [wpc EXCEPT ![k] = "ret"]

\* Worker k has called the collaborator `stage`, which succeeded or not.
Called(k, stage, ok) ==
    stages' = [stages EXCEPT ![k] = Append(@, [stage |-> stage, ok |-> ok])]

\* A conversion that stops one byte short of the frame.
RawBytesShort(dst, w, h) == dst .. (dst + w * h * 3 - 2)

\* The bytes ARGBToRAW writes: height rows of width*3 bytes, stride width*3.
RawBytes(dst, w, h) == dst .. (dst + w * h * 3 - 1)

\* A requeue that succeeds and leaves the buffer with the application.
RequeuedNot(n) == n

\* The checked-out count of a device after VIDIOC_QBUF has succeeded.
Requeued(n) == n - 1

\* v4l2_xioctl(cam->fd, VIDIOC_DQBUF, &buf)
DQBUF(k) ==
    /\ wpc[k] = "DQBUF"
    /\ \/ /\ out[cam_args[k].cam] < NumBuf
          /\ Called(k, "DQBUF", TRUE)
          /\ out' = [out EXCEPT ![cam_args[k].cam] = @ + 1]
          /\ wpc' = [wpc EXCEPT ![k] = "ConvertToARGB"]
          /\ UNCHANGED cam_args
       \/ /\ Called(k, "DQBUF", FALSE)
          /\ Return(k, 1)
          /\ UNCHANGED out
    /\ UNCHANGED <<desc, lifecall, acct, kind, pc, cams, N, width, height, cam_dst_sz, i, arr,
                   arr_size, written, nthreads, res, err>>

\* ConvertToARGB(sample, ..., argb, ...)
ConvertToARGB(k) ==
    /\ wpc[k] = "ConvertToARGB"
    /\ \/ /\ Called(k, "ConvertToARGB", TRUE)
          /\ wpc' = [wpc EXCEPT ![k] = "QBUF"]
          /\ UNCHANGED cam_args
       \/ /\ Called(k, "ConvertToARGB", FALSE)
          /\ Return(k, 2)
    /\ UNCHANGED <<desc, lifecall, acct, out, kind, pc, cams, N, width, height, cam_dst_sz, i,
                   arr, arr_size, written, nthreads, res, err>>

\* v4l2_xioctl(cam->fd, VIDIOC_QBUF, &buf)
QBUF(k) ==
    /\ wpc[k] = "QBUF"
    /\ \/ /\ Called(k, "QBUF", TRUE)
          /\ out' = [out EXCEPT ![cam_args[k].cam] = Requeued(@)]
          /\ wpc' = [wpc EXCEPT ![k] = "ARGBToRAW"]
          /\ UNCHANGED cam_args
       \/ /\ Called(k, "QBUF", FALSE)
          /\ Return(k, 3)
          /\ UNCHANGED out
    /\ UNCHANGED <<desc, lifecall, acct, kind, pc, cams, N, width, height, cam_dst_sz, i, arr,
                   arr_size, written, nthreads, res, err>>

\* ARGBToRAW(argb, ..., dst, ...)
ARGBToRAW(k) ==
    /\ wpc[k] = "ARGBToRAW"
    /\ \/ /\ Called(k, "ARGBToRAW", TRUE)
          /\ written' = [written EXCEPT ![k] =
                RawBytes(cam_args[k].dst, cam_width[cam_args[k].cam],
                         cam_height[cam_args[k].cam])]
          /\ Return(k, 0)
       \/ /\ Called(k, "ARGBToRAW", FALSE)
          /\ Return(k, 4)
          /\ UNCHANGED written
    /\ UNCHANGED <<desc, lifecall, acct, out, kind, pc, cams, N, width, height, cam_dst_sz, i,
                   arr, arr_size, nthreads, res, err>>

cam_read_worker(k) == DQBUF(k) \/ ConvertToARGB(k) \/ QBUF(k) \/ ARGBToRAW(k)

\* No call is in progress.
NoCall ==
    /\ kind = "none"
    /\ pc = "idle"
    /\ cams = NoCams
    /\ N = 0
    /\ width = 0
    /\ height = 0
    /\ cam_dst_sz = 0
    /\ i = 0
    /\ arr = "none"
    /\ arr_size = 0
    /\ cam_args = NoArgs
    /\ wpc = [k \in Idx |-> "idle"]
    /\ written = [k \in Idx |-> {}]
    /\ nthreads = 0
    /\ stages = [k \in Idx |-> <<>>]
    /\ res = "none"
    /\ err = NoErr

\* A driver call of the lifecycle and whether it succeeded.
Drv(call, ok) == [call |-> call, ok |-> ok]

\* No camera_start or camera_stop has been made.
NoLifeCall == [op |-> "none", dev |-> "none", calls |-> <<>>, ret |-> "none"]

\* The phase of a device in phase p once the driver call c has returned.
\* A call that fails leaves the device where it was; a call succeeds only
\* from the phase it is made for ("Invalid" otherwise); closing closes the
\* handle from any phase, whatever status it reports.
AfterDrv(p, c) ==
    IF c.call = "v4l2_close_device" THEN "Closed"
    ELSE IF ~c.ok THEN p
    ELSE IF c.call = "v4l2_open_device" /\ p = "Closed" THEN "Opened"
    ELSE IF c.call = "v4l2_init_device" /\ p = "Opened" THEN "Negotiated"
    ELSE IF c.call = "v4l2_start_capturing" /\ p = "Negotiated" THEN "Capturing"
    ELSE IF c.call = "v4l2_stop_capturing" /\ p = "Capturing" THEN "Negotiated"
    ELSE IF c.call = "v4l2_uninit_device" /\ p = "Negotiated" THEN "Opened"
    ELSE "Invalid"

\* The phase after a sequence of driver calls.
RECURSIVE AfterCalls(_, _)
AfterCalls(p, calls) ==
    IF calls = <<>> \/ p = "Invalid" THEN p
    ELSE AfterCalls(AfterDrv(p, Head(calls)), Tail(calls))

\* The results the driver may give to the calls of one camera_start or
\* camera_stop: r[1], r[2], r[3] to its three steps in order, r[4] to the
\* close of a failed camera_start.
DrvResults == [1..4 -> BOOLEAN]

\* A camera_start that does not close after start-capturing has failed.
StartCallsNoCloseAtLast(r) ==
    IF ~r[1]
    THEN <<Drv("v4l2_open_device", FALSE), Drv("v4l2_close_device", r[4])>>
    ELSE IF ~r[2]
    THEN <<Drv("v4l2_open_device", TRUE), Drv("v4l2_init_device", FALSE),
           Drv("v4l2_close_device", r[4])>>
    ELSE <<Drv("v4l2_open_device", TRUE), Drv("v4l2_init_device", TRUE),
           Drv("v4l2_start_capturing", r[3])>>

\* The driver calls camera_start makes when the driver answers with r.
StartCalls(r) ==
    IF ~r[1]
    THEN <<Drv("v4l2_open_device", FALSE), Drv("v4l2_close_device", r[4])>>
    ELSE IF ~r[2]
    THEN <<Drv("v4l2_open_device", TRUE), Drv("v4l2_init_device", FALSE),
           Drv("v4l2_close_device", r[4])>>
    ELSE IF ~r[3]
    THEN <<Drv("v4l2_open_device", TRUE), Drv("v4l2_init_device", TRUE),
           Drv("v4l2_start_capturing", FALSE), Drv("v4l2_close_device", r[4])>>
    ELSE <<Drv("v4l2_open_device", TRUE), Drv("v4l2_init_device", TRUE),
           Drv("v4l2_start_capturing", TRUE)>>

\* The driver calls camera_stop makes when the driver answers with r.
StopCalls(r) ==
    IF ~r[1]
    THEN <<Drv("v4l2_stop_capturing", FALSE)>>
    ELSE IF ~r[2]
    THEN <<Drv("v4l2_stop_capturing", TRUE), Drv("v4l2_uninit_device", FALSE)>>
    ELSE <<Drv("v4l2_stop_capturing", TRUE), Drv("v4l2_uninit_device", TRUE),
           Drv("v4l2_close_device", r[3])>>

\* camera_start(self, args): Py_RETURN_NONE when the three steps succeeded,
\* NULL otherwise.
camera_start(d, r) ==
    /\ kind = "none"
    /\ AfterCalls(phase[d], StartCalls(r)) # "Invalid"
    /\ phase' = [phase EXCEPT ![d] = AfterCalls(@, StartCalls(r))]
    /\ lifecall' = [op |-> "camera_start", dev |-> d, calls |-> StartCalls(r),
                    ret |-> IF r[1] /\ r[2] /\ r[3] THEN "None" ELSE "NULL"]
    /\ UNCHANGED <<cam_width, cam_height, format, fourcc, initres, out, acct,
                   callv>>

\* camera_stop(self, args): Py_RETURN_NONE when the three steps succeeded,
\* NULL at the first that failed.
camera_stop(d, r) ==
    /\ kind = "none"
    /\ AfterCalls(phase[d], StopCalls(r)) # "Invalid"
    /\ phase' = [phase EXCEPT ![d] = AfterCalls(@, StopCalls(r))]
    /\ lifecall' = [op |-> "camera_stop", dev |-> d, calls |-> StopCalls(r),
                    ret |-> IF r[1] /\ r[2] /\ r[3] THEN "None" ELSE "NULL"]
    /\ UNCHANGED <<cam_width, cam_height, format, fourcc, initres, out, acct,
                   callv>>

\* Every descriptor has been constructed without a format code and
\* started: its device is capturing with its whole pool queued.
Started ==
    /\ \E s \in [Dev -> Sizes] :
          /\ cam_width = [d \in Dev |-> s[d][1]]
          /\ cam_height = [d \in Dev |-> s[d][2]]
    /\ format = [d \in Dev |-> NULL]
    /\ fourcc = [d \in Dev |-> 0]
    /\ initres = [d \in Dev |-> "ok"]
    /\ phase = [d \in Dev |-> "Capturing"]
    /\ lifecall = NoLifeCall
    /\ out = [d \in Dev |-> 0]
    /\ out0 = [d \in Dev |-> 0]
    /\ NoCall

Init == Started /\ streak = [d \in Dev |-> -1]

\* The same, with the cycles of every device counted from the start.
InitAccount == Started /\ streak = [d \in Dev |-> 0]

\* Every descriptor is as tp_new left it: zeroed, Camera_init not yet run.
InitCamera ==
    /\ cam_width = [d \in Dev |-> 0]
    /\ cam_height = [d \in Dev |-> 0]
    /\ format = [d \in Dev |-> NULL]
    /\ fourcc = [d \in Dev |-> 0]
    /\ initres = [d \in Dev |-> "none"]
    /\ phase = [d \in Dev |-> "Closed"]
    /\ lifecall = NoLifeCall
    /\ out = [d \in Dev |-> 0]
    /\ out0 = [d \in Dev |-> 0]
    /\ streak = [d \in Dev |-> -1]
    /\ NoCall

(***************************************************************************)
(* camera_read                                                             *)
(***************************************************************************)

\* dst = PyDataMem_NEW(...); cam_args = {self, dst, 0}; pthread_create.
camera_read_call(d) ==
    /\ kind = "none"
    /\ kind' = "camera_read"
    /\ cams' = <<d>>
    /\ N' = 1
    /\ arr' = "allocated"
    /\ arr_size' = cam_width[d] * cam_height[d] * 3
    /\ cam_args' = [NoArgs EXCEPT ![0] = [cam |-> d, dst |-> 0, res |-> 0]]
    /\ wpc' = [wpc EXCEPT ![0] = "DQBUF"]
    /\ nthreads' = 1
    /\ pc' = "join"
    /\ UNCHANGED <<desc, lifecall, acct, out, width, height, cam_dst_sz, i, written, stages,
                   res, err>>

\* pthread_join(thread, NULL)
camera_read_join ==
    /\ kind = "camera_read"
    /\ pc = "join"
    /\ wpc[0] = "ret"
    /\ pc' = "check"
    /\ UNCHANGED <<desc, lifecall, acct, out, kind, cams, N, width, height, cam_dst_sz, i, arr,
                   arr_size, cam_args, wpc, written, nthreads, stages, res,
                   err>>

\* An outcome test that sees only the dequeue failure.
ReadFailedDequeueOnly(code) == code = 1

\* if (cam_args.res)
ReadFailed(code) == code # 0

\* if (cam_args.res) ...; res = PyArray_New(... dst ... NPY_ARRAY_OWNDATA);
\* if (!res) ...; return res.
camera_read_check ==
    /\ kind = "camera_read"
    /\ pc = "check"
    /\ pc' = "returned"
    /\ IF ReadFailed(cam_args[0].res)
       THEN /\ err' = Error("RuntimeError", -1, cam_args[0].res)
            /\ res' = "NULL"
            /\ arr' = arr
       ELSE \/ /\ res' = "array"
               /\ arr' = "caller"
               /\ err' = err
            \/ /\ err' = Error("RuntimeError", -1, -1)
               /\ res' = "NULL"
               /\ arr' = arr
    /\ UNCHANGED <<desc, lifecall, acct, out, kind, cams, N, width, height, cam_dst_sz, i,
                   arr_size, cam_args, wpc, written, nthreads, stages>>

(***************************************************************************)
(* camsys_read                                                             *)
(***************************************************************************)

\* The C-API calls of camsys_read whose NULL result the code tests.
Faults == {"none", "PyArg_ParseTuple", "cameras", "width", "height",
           "PyArray_SimpleNew", "PySequence_GetItem"}

\* Device sequences a capture system may hold.
CamSeqs == UNION {[1 .. n -> Dev] : n \in 0 .. MaxN}

\* if (N <= 0) without the empty case.
NoCamerasNegativeOnly(n) == n < 0

\* if (N <= 0)
NoCameras(n) == n <= 0

\* A slice offset that forgets the three bytes per pixel.
SliceOffsetPixels(k, sz) == k * (sz \div 3)

\* &dst[i * cam_dst_sz]
SliceOffset(k, sz) == k * sz

\* What camsys_read does before it creates a thread, with the capture
\* system's cameras, width and height and the C-API call that fails.
camsys_read_call(seq, size, fault) ==
    /\ kind = "none"
    /\ kind' = "camsys_read"
    /\ UNCHANGED <<desc, lifecall, acct, out, wpc, written, nthreads, stages, i>>
    /\ IF fault \in {"PyArg_ParseTuple", "cameras"}
       THEN \* return NULL
            /\ pc' = "returned"
            /\ res' = "NULL"
            /\ err' = Error(IF fault = "cameras" THEN "AttributeError"
                            ELSE "TypeError", -1, -1)
            /\ UNCHANGED <<cams, N, width, height, cam_dst_sz, arr, arr_size,
                           cam_args>>
       ELSE /\ cams' = seq
            /\ N' = Len(seq)
            /\ IF NoCameras(Len(seq))
               THEN /\ pc' = "returned"
                    /\ res' = "NULL"
                    /\ err' = Error("ValueError", -1, -1)
                    /\ UNCHANGED <<width, height, cam_dst_sz, arr, arr_size,
                                   cam_args>>
               ELSE IF fault \in {"width", "height"}
               THEN /\ pc' = "returned"
                    /\ res' = "NULL"
                    /\ err' = Error("AttributeError", -1, -1)
                    /\ UNCHANGED <<width, height, cam_dst_sz, arr, arr_size,
                                   cam_args>>
               ELSE /\ width' = size[1]
                    /\ height' = size[2]
                    /\ cam_dst_sz' = size[1] * size[2] * 3
                    /\ IF fault = "PyArray_SimpleNew"
                       THEN /\ pc' = "returned"
                            /\ res' = "NULL"
                            /\ err' = Error("MemoryError", -1, -1)
                            /\ UNCHANGED <<arr, arr_size, cam_args>>
                       ELSE /\ arr' = "allocated"
                            /\ arr_size' = Len(seq) * size[2] * size[1] * 3
                            /\ IF fault = "PySequence_GetItem"
                               THEN /\ pc' = "returned"
                                    /\ res' = "NULL"
                                    /\ err' = Error("IndexError", -1, -1)
                                    /\ UNCHANGED cam_args
                               ELSE /\ cam_args' =
                                         [k \in Idx |->
                                            IF k < Len(seq)
                                            THEN [cam |-> seq[k + 1],
                                                  dst |-> SliceOffset(k, cam_dst_sz'),
                                                  res |-> 0]
                                            ELSE NoArgs[k]]
                                    /\ pc' = "create"
                                    /\ UNCHANGED <<res, err>>

\* for (i...) pthread_create(&threads[i], NULL, cam_read_worker, &cam_args[i])
\* A create loop that stops one thread short.
CreateCountShort(n) == n - 1

\* for (int i = 0; i < N; ++i) pthread_create(...)
CreateCount(n) == n

camsys_read_create ==
    /\ kind = "camsys_read"
    /\ pc = "create"
    /\ IF i < CreateCount(N)
       THEN /\ wpc' = [wpc EXCEPT ![i] = "DQBUF"]
            /\ nthreads' = nthreads + 1
            /\ i' = i + 1
            /\ pc' = pc
       ELSE /\ i' = 0
            /\ pc' = "join"
            /\ UNCHANGED <<wpc, nthreads>>
    /\ UNCHANGED <<desc, lifecall, acct, out, kind, cams, N, width, height, cam_dst_sz, arr,
                   arr_size, cam_args, written, stages, res, err>>

\* A join that gives up waiting.
JoinedOrTimedOut(k) == TRUE

\* pthread_join(threads[k], NULL) returns: thread k has terminated.
Joined(k) == wpc[k] = "ret"

\* A join loop that stops one thread short.
JoinCountShort(n) == n - 1

\* for (int i=0; i<N; i++) pthread_join(...): the threads the loop joins.
JoinCount(n) == n

\* pthread_join(threads[i], NULL)
camsys_read_join ==
    /\ kind = "camsys_read"
    /\ pc = "join"
    /\ IF i < JoinCount(N)
       THEN /\ Joined(i)
            /\ i' = i + 1
            /\ pc' = pc
       ELSE /\ i' = 0
            /\ pc' = "check"
    /\ UNCHANGED <<desc, lifecall, acct, out, kind, cams, N, width, height, cam_dst_sz, arr,
                   arr_size, cam_args, wpc, written, nthreads, stages, res,
                   err>>

\* An error scan that runs from the last device down.
RECURSIVE LastFailure(_, _)
LastFailure(k, n) ==
    IF k >= n THEN -1
    ELSE IF cam_args[n - 1 - k].res # 0 THEN n - 1 - k
    ELSE LastFailure(k + 1, n)

\* for (int i=0; i<N; i++) if (cam_args[i].res) ...: the index the scan
\* started at k stops at, -1 when it runs to the end.
RECURSIVE FirstFailure(_, _)
FirstFailure(k, n) ==
    IF k >= n THEN -1
    ELSE IF cam_args[k].res # 0 THEN k
    ELSE FirstFailure(k + 1, n)

\* A failed call that hands the array out all the same.
FailedResultArray == "array"

\* res stays NULL on goto RETURN.
FailedResult == "NULL"

\* The error scan, res = arr, and RETURN.
camsys_read_check ==
    /\ kind = "camsys_read"
    /\ pc = "check"
    /\ pc' = "returned"
    /\ LET f == FirstFailure(0, N) IN
       IF f # -1
       THEN /\ err' = Error("RuntimeError", f, cam_args[f].res)
            /\ res' = FailedResult
            /\ arr' = arr
       ELSE /\ res' = "array"
            /\ arr' = "caller"
            /\ err' = err
    /\ UNCHANGED <<desc, lifecall, acct, out, kind, cams, N, width, height, cam_dst_sz, i,
                   arr_size, cam_args, wpc, written, nthreads, stages>>

\* The workers the call created on device d.
WorkersOn(d) == {k \in Idx : k < nthreads /\ cam_args[k].cam = d}

\* streak[d] once the cycles of the call that has returned are counted.
Counted(d) ==
    IF WorkersOn(d) = {} THEN streak[d]
    ELSE IF streak[d] >= 0 /\ \A k \in WorkersOn(d) : cam_args[k].res = 2
         THEN streak[d] + Cardinality(WorkersOn(d))
         ELSE -1

\* The caller takes the result or the error; the next call starts afresh.
Finish ==
    /\ pc = "returned"
    /\ kind' = "none"
    /\ pc' = "idle"
    /\ cams' = NoCams
    /\ N' = 0
    /\ width' = 0
    /\ height' = 0
    /\ cam_dst_sz' = 0
    /\ i' = 0
    /\ arr' = "none"
    /\ arr_size' = 0
    /\ cam_args' = NoArgs
    /\ wpc' = [k \in Idx |-> "idle"]
    /\ written' = [k \in Idx |-> {}]
    /\ nthreads' = 0
    /\ stages' = [k \in Idx |-> <<>>]
    /\ res' = "none"
    /\ err' = NoErr
    /\ out0' = out
    /\ streak' = [d \in Dev |-> Counted(d)]
    /\ UNCHANGED <<desc, lifecall, out>>

Next ==
    \/ \E d \in Dev : camera_read_call(d)
    \/ camera_read_join
    \/ camera_read_check
    \/ \E seq \in CamSeqs, size \in Sizes, fault \in Faults :
          camsys_read_call(seq, size, fault)
    \/ camsys_read_create
    \/ camsys_read_join
    \/ camsys_read_check
    \/ \E k \in Idx : cam_read_worker(k)
    \/ Finish

Spec == Init /\ [][Next]_vars

\* The threads are scheduled fairly and every driver and conversion call a
\* worker makes returns; the calling thread keeps running its call.  The
\* caller is not obliged to make a call or to make another one.
Fairness ==
    /\ \A k \in Idx : WF_vars(cam_read_worker(k))
    /\ WF_vars(camera_read_join)
    /\ WF_vars(camera_read_check)
    /\ WF_vars(camsys_read_create)
    /\ WF_vars(camsys_read_join)
    /\ WF_vars(camsys_read_check)

\* The reads of a device are counted from its start.
SpecAccount == InitAccount /\ [][Next]_vars

SpecFair == Init /\ [][Next]_vars /\ Fairness

\* Descriptors are constructed and constructed again; no read is made.
NextCamera ==
    \E d \in Dev, fmt \in Formats \cup {NULL} : Camera_init(d, NoSize, fmt)

SpecCamera == InitCamera /\ [][NextCamera]_vars

\* Every descriptor has been constructed without a format code and none
\* has been started: its device is closed.
InitLifecycle ==
    /\ \E s \in [Dev -> Sizes] :
          /\ cam_width = [d \in Dev |-> s[d][1]]
          /\ cam_height = [d \in Dev |-> s[d][2]]
    /\ format = [d \in Dev |-> NULL]
    /\ fourcc = [d \in Dev |-> 0]
    /\ initres = [d \in Dev |-> "ok"]
    /\ phase = [d \in Dev |-> "Closed"]
    /\ lifecall = NoLifeCall
    /\ out = [d \in Dev |-> 0]
    /\ out0 = [d \in Dev |-> 0]
    /\ streak = [d \in Dev |-> -1]
    /\ NoCall

\* Descriptors are started and stopped; no read is made.
NextLifecycle ==
    \/ \E d \in Dev, r \in DrvResults : camera_start(d, r)
    \/ \E d \in Dev, r \in DrvResults : camera_stop(d, r)

SpecLifecycle == InitLifecycle /\ [][NextLifecycle]_vars

(***************************************************************************)
(* Vocabulary of the properties                                            *)
(***************************************************************************)

Batch == kind = "camsys_read"
Single == kind = "camera_read"
Returned == pc = "returned"

\* The worker indices of the call in progress.
Workers == 0 .. (N - 1)

\* The collaborator calls worker k made, by name.
StagesOf(k) == {stages[k][j].stage : j \in DOMAIN stages[k]}

\* Worker k called `stage` and the call succeeded.
Succeeded(k, stage) ==
    \E j \in DOMAIN stages[k] : stages[k][j] = [stage |-> stage, ok |-> TRUE]

\* Worker k has run its cycle to the end with outcome Success.
EndedSuccess(k) == wpc[k] = "ret" /\ cam_args[k].res = 0 /\ stages[k] # <<>>

\* The workers of the call whose outcome is not Success.
FailedWorkers == {k \in Workers : wpc[k] = "ret" /\ cam_args[k].res # 0}

\* Every device of the batch has the batch's width and height.
SharedSize ==
    \A k \in Workers :
        /\ cam_width[cams[k + 1]] = width
        /\ cam_height[cams[k + 1]] = height

\* Slice k of a Result Buffer of frames of h * w * 3 bytes.
Slice(k, h, w) == (k * h * w * 3) .. ((k + 1) * h * w * 3 - 1)

\* Characters x and y are equal up to the case of an ASCII letter.
SameLetter(x, y) ==
    \/ x = y
    \/ x \in 65 .. 90 /\ y = x + 32
    \/ y \in 65 .. 90 /\ x = y + 32

\* Codes f and g are one spelling up to case.
CaseEq(f, g) ==
    /\ Len(f) = Len(g)
    /\ \A j \in DOMAIN f : SameLetter(f[j], g[j])

(***************************************************************************)
(* C1: when a batch call that created workers reads their outcomes, raises *)
(* its error or returns, every worker thread it created has returned: no   *)
(* worker is between its dequeue and its return.                           *)
(***************************************************************************)
C1_JoinBarrier ==
    (Batch /\ (pc \in {"check", "returned"} \/ err # NoErr \/ res # "none"))
        => /\ \A k \in Idx : ~Running(k)
           /\ nthreads > 0 => /\ nthreads = N
                              /\ \A k \in Workers : wpc[k] = "ret"

\* A batch of two has returned an error with both workers finished.
C1_Witness ==
    /\ Batch /\ Returned /\ nthreads = 2
    /\ err.type = "RuntimeError"
    /\ \A k \in Workers : wpc[k] = "ret"

(***************************************************************************)
(* C2 as claimed: a batch call over N >= 1 devices fails if and only if    *)
(* some worker's outcome is non-success, and then its error names the      *)
(* smallest failing index with that worker's code.                         *)
(***************************************************************************)
C2_Original ==
    (Batch /\ Returned /\ N >= 1)
        => /\ res = "NULL" <=> FailedWorkers # {}
           /\ FailedWorkers # {} =>
                \E k \in FailedWorkers :
                    /\ \A j \in FailedWorkers : k <= j
                    /\ err = Error("RuntimeError", k, cam_args[k].res)

(***************************************************************************)
(* C2 amended: a batch call that has created its workers fails if and only *)
(* if some worker's outcome is non-success; its error then names the       *)
(* smallest failing index with that worker's outcome code, whatever the    *)
(* other workers did, and no array is returned; otherwise the array is     *)
(* returned and no error is set.                                           *)
(***************************************************************************)
C2_FirstFailure ==
    (Batch /\ Returned /\ nthreads >= 1)
        => /\ res = "NULL" <=> FailedWorkers # {}
           /\ FailedWorkers # {} =>
                \E k \in FailedWorkers :
                    /\ \A j \in FailedWorkers : k <= j
                    /\ err = Error("RuntimeError", k, cam_args[k].res)
           /\ FailedWorkers = {} => res = "array" /\ err = NoErr

\* Both workers of a batch failed, at different stages; the error names
\* device 0.
C2_Witness ==
    /\ Batch /\ Returned /\ N = 2
    /\ cam_args[0].res = 2
    /\ cam_args[1].res = 1
    /\ err = Error("RuntimeError", 0, 2)

(***************************************************************************)
(* C3: in a batch whose devices all have the batch's width W and height H, *)
(* worker k is given the offset k*H*W*3, writes only bytes of              *)
(* [k*H*W*3, (k+1)*H*W*3), never a byte another worker writes, and never a *)
(* byte outside the N*H*W*3 bytes of the Result Buffer.                    *)
(***************************************************************************)
C3_SliceDisjoint ==
    (Batch /\ arr # "none" /\ cam_args[0].cam # "none" /\ SharedSize)
        => /\ arr_size = N * height * width * 3
           /\ \A k \in Workers :
                /\ cam_args[k].dst = k * height * width * 3
                /\ written[k] \subseteq Slice(k, height, width)
                /\ written[k] \subseteq 0 .. (arr_size - 1)
                /\ \A j \in Workers \ {k} : written[k] \cap written[j] = {}

\* Two workers of a batch of 2x1 frames have both written their frames.
C3_Witness ==
    /\ Batch /\ N = 2 /\ SharedSize /\ width = 2
    /\ written[0] # {}
    /\ written[1] # {}

(***************************************************************************)
(* C4 as claimed: a batch call over N >= 1 devices returns an array if and *)
(* only if all N workers ended with Success; the array has N frames of     *)
(* H*W*3 bytes and frame k is what worker k's second conversion wrote.     *)
(***************************************************************************)
C4_Original ==
    (Batch /\ Returned /\ N >= 1)
        => /\ res = "array" <=> \A k \in Workers : EndedSuccess(k)
           /\ res = "array" =>
                /\ arr = "caller"
                /\ arr_size = N * height * width * 3
                /\ \A k \in Workers :
                      /\ Succeeded(k, "ARGBToRAW")
                      /\ written[k] = Slice(k, height, width)

(***************************************************************************)
(* C4 amended: a batch call over N >= 1 devices returns an array if and    *)
(* only if all N workers ended with Success; the array has N frames of     *)
(* H*W*3 bytes, every worker's second conversion succeeded, and, when      *)
(* every device has the batch's width and height, frame k is exactly what  *)
(* worker k's second conversion wrote.                                     *)
(***************************************************************************)
C4_AllSuccess ==
    (Batch /\ Returned /\ N >= 1)
        => /\ res = "array" <=> \A k \in Workers : EndedSuccess(k)
           /\ res = "array" =>
                /\ arr = "caller"
                /\ arr_size = N * height * width * 3
                /\ \A k \in Workers : Succeeded(k, "ARGBToRAW")
                /\ SharedSize =>
                      \A k \in Workers : written[k] = Slice(k, height, width)

\* A batch of two devices of the batch's size has returned its array.
C4_Witness ==
    /\ Batch /\ Returned /\ N = 2 /\ SharedSize
    /\ res = "array"
    /\ written[1] = Slice(1, height, width)

(***************************************************************************)
(* C5: a batch call whose device sequence is empty fails with a            *)
(* ValueError, creates no thread, makes no dequeue or requeue and          *)
(* allocates no Result Buffer.                                             *)
(***************************************************************************)
C5_EmptyBatch ==
    (Batch /\ cams = <<>>)
        => /\ Returned
           /\ res = "NULL"
           /\ err = Error("ValueError", -1, -1)
           /\ nthreads = 0
           /\ \A k \in Idx : stages[k] = <<>> /\ wpc[k] = "idle"
           /\ arr = "none"

\* A batch call over the empty sequence has returned.
C5_Witness == Batch /\ cams = <<>> /\ Returned /\ err.type = "ValueError"

(***************************************************************************)
(* C6: when a batch call fails because a worker's outcome is non-success,  *)
(* the caller gets no array, the frames of the workers that succeeded      *)
(* included, and one error: that of the first failing device.              *)
(***************************************************************************)
C6_NoPartialResult ==
    (Batch /\ Returned /\ FailedWorkers # {})
        => /\ res = "NULL"
           /\ arr # "caller"
           /\ err.type = "RuntimeError"
           /\ err.index \in FailedWorkers
           /\ \A j \in FailedWorkers : err.index <= j

\* Worker 0 wrote its frame, worker 1 failed: nothing is returned.
C6_Witness ==
    /\ Batch /\ Returned /\ N = 2
    /\ EndedSuccess(0) /\ written[0] # {}
    /\ cam_args[1].res = 4
    /\ res = "NULL"

(***************************************************************************)
(* C7 as claimed: camera_read runs one worker on its own thread, waits for *)
(* it before it reads the outcome, returns the destination if and only if  *)
(* the outcome is Success, and otherwise raises a RuntimeError carrying    *)
(* the outcome code.                                                       *)
(***************************************************************************)
C7_Original ==
    /\ (Single /\ pc \in {"check", "returned"})
          => nthreads = 1 /\ wpc[0] = "ret" /\ \A k \in Idx \ {0} : wpc[k] = "idle"
    /\ (Single /\ Returned)
          => /\ res = "array" <=> cam_args[0].res = 0
             /\ res # "array" =>
                   /\ res = "NULL"
                   /\ err = Error("RuntimeError", -1, cam_args[0].res)

(***************************************************************************)
(* C7 amended: camera_read runs one worker on its own thread and waits for *)
(* it before it reads the outcome.  It returns the destination only if the *)
(* outcome is Success; a non-success outcome raises a RuntimeError         *)
(* carrying the outcome code and returns no array; with outcome Success    *)
(* the call returns the destination unless PyArray_New fails, and then it  *)
(* raises a RuntimeError that carries no outcome code.                     *)
(***************************************************************************)
C7_SingleRead ==
    /\ (Single /\ pc \in {"check", "returned"})
          => nthreads = 1 /\ wpc[0] = "ret" /\ \A k \in Idx \ {0} : wpc[k] = "idle"
    /\ (Single /\ Returned)
          => /\ res = "array" => cam_args[0].res = 0 /\ arr = "caller" /\ err = NoErr
             /\ cam_args[0].res # 0 =>
                   /\ res = "NULL"
                   /\ err = Error("RuntimeError", -1, cam_args[0].res)
             /\ (cam_args[0].res = 0 /\ res # "array") =>
                   /\ res = "NULL"
                   /\ err = Error("RuntimeError", -1, -1)

\* A single read has failed at the second conversion and raised code 4.
C7_Witness ==
    /\ Single /\ Returned
    /\ cam_args[0].res = 4
    /\ err = Error("RuntimeError", -1, 4)

(***************************************************************************)
(* C8: Camera_init rejects a format code whose length is not 4 with a      *)
(* ValueError and accepts one of length 4; it never opens the driver       *)
(* handle; and two accepted codes that differ only in the case of their    *)
(* letters are packed into the same tag.                                   *)
(***************************************************************************)
C8_FormatCode ==
    /\ \A d \in Dev :
          /\ ~opened[d]
          /\ (initres[d] # "none" /\ format[d] # NULL) =>
                (initres[d] = "ValueError" <=> Len(format[d]) # 4)
    /\ \A d \in Dev, e \in Dev :
          (/\ initres[d] = "ok" /\ format[d] # NULL
           /\ initres[e] = "ok" /\ format[e] # NULL
           /\ CaseEq(format[d], format[e]))
              => fourcc[d] = fourcc[e]

\* Two descriptors hold different spellings of one code, and the same tag.
C8_Witness ==
    /\ initres["video0"] = "ok" /\ initres["video1"] = "ok"
    /\ format["video0"] = <<121, 89, 121, 121>>
    /\ format["video1"] = <<89, 121, 121, 121>>
    /\ fourcc["video0"] = fourcc["video1"]

(***************************************************************************)
(* C9: a worker whose dequeue succeeded attempts the requeue before it     *)
(* returns, whatever the later stages did.                                 *)
(***************************************************************************)
C9_RequeueOnEveryExit ==
    \A k \in Idx :
        (wpc[k] = "ret" /\ Succeeded(k, "DQBUF")) => "QBUF" \in StagesOf(k)

(***************************************************************************)
(* C10: each device has at most one raw buffer checked out at any time.    *)
(***************************************************************************)
C10_SingleCheckout == \A d \in Dev : out[d] <= 1


\* The four stages of a worker cycle, in the order of the code.
StageOrder == <<"DQBUF", "ConvertToARGB", "QBUF", "ARGBToRAW">>

C12_BufferOwnership ==
    Returned =>
        /\ res = "array" => arr = "caller"
        /\ res = "NULL" => arr # "allocated"


\* Worker k has made a driver call on its device.
Touched(k) == "DQBUF" \in StagesOf(k)

(***************************************************************************)
(* C13: in a batch call no device is operated on by two workers: two       *)
(* different workers that have made driver calls made them on different    *)
(* devices, whatever device sequence the call was given.                   *)
(***************************************************************************)
C13_DevicePrivacy ==
    Batch =>
        \A k \in Workers, j \in Workers :
            (k # j /\ Touched(k) /\ Touched(j))
                => cam_args[k].cam # cam_args[j].cam


(***************************************************************************)
(* C14: a batch call has no timeout and no cancellation.  While a worker   *)
(* it created is still in its dequeue, the call stays in its create or     *)
(* join loop with no result and no error, whatever the other workers have  *)
(* done; and a worker leaves its dequeue only by the dequeue returning.    *)
(* So a dequeue that never returns keeps the call from ever returning.     *)
(***************************************************************************)
C14_StalledDequeueBlocks ==
    [][\A k \in Idx :
          (Batch /\ wpc[k] = "DQBUF") =>
              /\ pc \in {"create", "join"} /\ res = "none" /\ err = NoErr
              /\ wpc'[k] = "DQBUF" =>
                    /\ kind' = kind
                    /\ pc' \in {"create", "join"}
                    /\ res' = "none"
                    /\ err' = NoErr
              /\ wpc'[k] # "DQBUF" =>
                    /\ Len(stages'[k]) = 1
                    /\ stages'[k][1].stage = "DQBUF"]_vars

\* Worker 0 has failed and been joined; the call waits for worker 1, which
\* is in its dequeue.
C14_Witness ==
    /\ Batch /\ N = 2
    /\ pc = "join" /\ i = 1
    /\ wpc[0] = "ret" /\ cam_args[0].res = 1
    /\ wpc[1] = "DQBUF"


\* The number of times worker k has entered its cycle.
Cycles(k) == Cardinality({j \in DOMAIN stages[k] : stages[k][j].stage = "DQBUF"})

(***************************************************************************)
(* C15: under fair scheduling, with every dequeue, conversion and requeue  *)
(* returning, every call that has started returns to the caller; and when  *)
(* it returns, each worker it created has run its cycle exactly once and   *)
(* has ended, a call that created workers created one per device, and no   *)
(* other worker has run.                                                   *)
(***************************************************************************)
C15_Termination ==
    /\ [](kind # "none" => <>Returned)
    /\ [](Returned =>
            /\ nthreads \in {0, N}
            /\ \A k \in Idx :
                  IF k < nthreads
                  THEN wpc[k] = "ret" /\ Cycles(k) = 1
                  ELSE wpc[k] = "idle" /\ Cycles(k) = 0)

\* A batch over two devices has returned its array after both workers ran.
C15_Witness ==
    /\ Batch /\ Returned /\ N = 2 /\ res = "array"
    /\ Cycles(0) = 1 /\ Cycles(1) = 1


\* Worker k has a raw buffer of its device: dequeued and not requeued.
Holding(k) == Succeeded(k, "DQBUF") /\ ~Succeeded(k, "QBUF")

(***************************************************************************)
(* C16: checkout accounting on a started device.  A worker cycle that has  *)
(* ended with outcome 0 (success), 4 (second conversion failed) or 1       *)
(* (dequeue failed) holds no raw buffer, and one that has ended with       *)
(* outcome 2 (first conversion failed) still holds the buffer it dequeued; *)
(* the checked-out count of each device is its count when the call began   *)
(* plus the buffers the call's workers on it hold.  So between calls,      *)
(* after k cycles on a device that each failed at the first conversion     *)
(* and no others, exactly k of its buffers are checked out.                *)
(***************************************************************************)
C16_CheckoutAccounting ==
    /\ \A k \in Idx :
          (k < nthreads /\ wpc[k] = "ret") =>
              /\ cam_args[k].res \in {0, 4, 1} => ~Holding(k)
              /\ cam_args[k].res = 2 => Holding(k)
    /\ \A d \in Dev :
          /\ out[d] = out0[d] + Cardinality({k \in WorkersOn(d) : Holding(k)})
          /\ (kind = "none" /\ streak[d] >= 0) => out[d] = streak[d]

\* Two reads of one device have each failed at the first conversion, and
\* both buffers of its pool are checked out.
C16_Witness ==
    /\ kind = "none"
    /\ \E d \in Dev : streak[d] = 2 /\ out[d] = 2


\* The driver calls of the last lifecycle call other than the close.
Steps == SelectSeq(lifecall.calls, LAMBDA c : c.call # "v4l2_close_device")

\* calls makes the steps of order in order, each after the success of the
\* one before it.
InOrder(calls, order) ==
    /\ Len(calls) <= Len(order)
    /\ \A j \in DOMAIN calls :
          /\ calls[j].call = order[j]
          /\ j < Len(calls) => calls[j].ok

(***************************************************************************)
(* C17: camera_start makes open, init and start-capturing in that order,   *)
(* each after the success of the one before; when one fails it makes no    *)
(* later step, closes the device as its last driver call and returns NULL, *)
(* and the device is closed; when all three succeed it makes no close,     *)
(* returns None and the device is capturing.  camera_stop makes            *)
(* stop-capturing, uninit and close in that order, each after the success  *)
(* of the one before, and returns NULL at the first that fails.            *)
(***************************************************************************)
C17_StartAllOrNothing ==
    LET calls == lifecall.calls
        last == calls[Len(calls)]
    IN  /\ lifecall.op = "camera_start" =>
              /\ InOrder(Steps, <<"v4l2_open_device", "v4l2_init_device",
                                  "v4l2_start_capturing">>)
              /\ Steps # <<>>
              /\ IF Steps[Len(Steps)].ok
                 THEN /\ Len(Steps) = 3
                      /\ calls = Steps
                      /\ lifecall.ret = "None"
                      /\ phase[lifecall.dev] = "Capturing"
                 ELSE /\ calls = Append(Steps, last)
                      /\ last.call = "v4l2_close_device"
                      /\ lifecall.ret = "NULL"
                      /\ phase[lifecall.dev] = "Closed"
        /\ lifecall.op = "camera_stop" =>
              /\ InOrder(calls, <<"v4l2_stop_capturing", "v4l2_uninit_device",
                                  "v4l2_close_device">>)
              /\ calls # <<>>
              /\ lifecall.ret = "None" <=> (Len(calls) = 3 /\ last.ok)
              /\ lifecall.ret = "NULL" <=> ~last.ok

\* A camera_start whose start-capturing failed has closed the device.
C17_Witness ==
    /\ lifecall.op = "camera_start"
    /\ Len(lifecall.calls) = 4
    /\ ~lifecall.calls[3].ok
    /\ phase[lifecall.dev] = "Closed"

=============================================================================
